---------------------------- MODULE Spec2Model ----------------------------
(***************************************************************************)
(* Discount-curve bootstrapper of q3.py (deposits + par swaps, LSR / CFR   *)
(* gap filling) and its bisection solver.                                  *)
(*                                                                         *)
(* Numbers.  The script computes in binary floating point.  Here every     *)
(* real is a fixed-point integer: discount factors, annuities, the CFR     *)
(* ratio x and the residual f(x) in units of 1/Scale, decimal rates in     *)
(* units of 1/RateScale, quoted percentages in units of 1/PctScale of a    *)
(* percent.  Every division rounds down (\div), once per source            *)
(* expression.                                                             *)
(*                                                                         *)
(* Two programs share the module: the script itself (mode "bootstrap":     *)
(* ingestion, anchor, the loop over maturities, the spot and forward rates) *)
(* and a direct call of solve_constant_forward on an arbitrary f and       *)
(* bracket (mode "solver").  A third program (mode "coupon") is the        *)
(* historical coupon table of q2_alt.py, q2.py and q2_test.py.             *)
(***************************************************************************)
EXTENDS Integers, Sequences, FiniteSets, TLC

(***************************** bounds and units ****************************)
\* Last maturity of the grid (max_maturity = 60 in the script), scaled down.
max_maturity == 5
\* Most rows with a maturity in the IRS sheet.
MaxQuotes == 2
\* The solver harness evaluates f on the grid 0..GridMax.
GridMax == 3
\* Most coupon periods of a schedule.
MaxPeriods == 2

Scale == 10^4
RateScale == 10^4
PctScale == 10^1

\* Quoted percentages (in 1/PctScale percent): 1.0 %, 5.0 %; 1.2 %, 1.8 %, 30 %.
DepositLasts == {10, 50}
SwapLasts == {12, 18, 300}
\* Values of f in the solver harness.
FVals == {-1, 0, 1}
\* 3M fixings of the Euribor file, in 1/CsvScale percent: 1.00 %, 2.50 %,
\* 5.00 %; days of a coupon period.
CsvScale == 10^2
Fixings == {100, 250, 500}
PeriodDays == {90, 92}

(******************************** helpers **********************************)
Abs(v) == IF v < 0 THEN -v ELSE v
Sign(v) == IF v < 0 THEN -1 ELSE IF v > 0 THEN 1 ELSE 0
Max(S) == CHOOSE m \in S : \A n \in S : n <= m
Min(S) == CHOOSE m \in S : \A n \in S : m <= n

\* dict[k] = v
Put(d, k, v) == [t \in DOMAIN d \cup {k} |-> IF t = k THEN v ELSE d[t]]
\* dict.get(k, default)
Get(d, k, default) == IF k \in DOMAIN d THEN d[k] ELSE default

\* x ** n for a fixed-point x and an integer n >= 0.
RECURSIVE Pow(_, _)
Pow(x, n) == IF n = 0 THEN Scale ELSE (Pow(x, n - 1) * x) \div Scale

\* 1e-8 (tol, and the literal of line 128) in fixed-point units: for an
\* integer v, |v| / Scale < 1e-8 iff |v| < ceil(Scale / 10^8).
tol == (Scale + 10^8 - 1) \div 10^8
max_iter == 100

\* float('nan'): an integer no fixed-point quantity of the model takes.  The
\* script tests a NaN only with "> 0", which is false of it.
NaN == -(2^30)

\* math.log of a positive fixed-point number, in units of 1/RateScale: ln 2
\* for every halving or doubling that brings v into [1, 2), then
\* ln m = 2 * atanh((m - 1) / (m + 1)) by the first terms of its series.
Ln2 == (6931 * RateScale) \div 10^4
RECURSIVE Ln(_)
Ln(v) ==
    IF v >= 2 * Scale THEN Ln(v \div 2) + Ln2
    ELSE IF v < Scale THEN Ln(2 * v) - Ln2
    ELSE LET z == ((v - Scale) * Scale) \div (v + Scale)
             z2 == (z * z) \div Scale
             z3 == (z * z2) \div Scale
             z5 == (z3 * z2) \div Scale
         IN  ((2 * z + (2 * z3) \div 3 + (2 * z5) \div 5) * RateScale) \div Scale

(****************************** ingestion **********************************)
\* row['Last'] / 100.0 : a quoted percentage as a decimal rate.
ToDecimal(last) == (last * RateScale) \div (100 * PctScale)

\* maturity_from_deposit, in days of a 360-day year; <<>> is None.
maturity_from_deposit(ric) ==
    CASE ric = "EURSWD" -> <<7>>
      [] ric = "EUR1MD" -> <<30>>
      [] ric = "EUR3MD" -> <<90>>
      [] ric = "EUR6MD" -> <<180>>
      [] ric = "EUR9MD" -> <<270>>
      [] ric = "EUR1YD" -> <<360>>
      [] OTHER -> <<>>

\* Seeded fault: the day count is not divided by 360.
DepositDiscountFactorNoDayCount(last, days) ==
    (Scale * RateScale) \div (RateScale + ToDecimal(last) * days)

\* 1 / (1 + Last / 100 * T), T in days / 360.
DepositDiscountFactor(last, days) ==
    (Scale * RateScale) \div (RateScale + (ToDecimal(last) * days) \div 360)

\* The rows the deposit loop reads: all but the first two (OND, TND).
deposit_data(df) == SubSeq(df, 3, Len(df))

\* deposit_data['T'] (line 56): maturity_from_deposit applied to the RIC
\* column.  Series.apply infers the dtype of its result: with a float among
\* the values the column is float64 and every None is stored as NaN; with
\* None only it is an object column that keeps None.
TColumn(rows) ==
    LET raw == [i \in DOMAIN rows |-> maturity_from_deposit(rows[i].RIC)]
    IN  IF \E i \in DOMAIN rows : raw[i] # <<>>
        THEN [i \in DOMAIN rows |-> IF raw[i] = <<>> THEN <<NaN>> ELSE raw[i]]
        ELSE raw

\* A NaN used as a dictionary key, for the row it was read from: it equals
\* no key, so every such row adds an entry of its own.
NaNKey(i) == -i

\* deposit_discount_factors after the loop of lines 62-65 from row i on: the
\* test of line 64 lets a NaN through, line 59 has given the row the
\* discount factor 1 / (1 + Last / 100 * NaN) = NaN; a later row with the
\* same T overwrites an earlier one.
RECURSIVE DepositLoop(_, _, _, _)
DepositLoop(rows, Ts, i, acc) ==
    IF i > Len(rows) THEN acc
    ELSE LET row == rows[i]
             T0 == Ts[i]
         IN  DepositLoop(rows, Ts, i + 1,
                 IF T0 # <<>>
                 THEN IF T0[1] = NaN THEN Put(acc, NaNKey(i), NaN)
                      ELSE Put(acc, T0[1], DepositDiscountFactor(row.Last, T0[1]))
                 ELSE acc)

\* maturity_from_irs: the digits before a "Y" of the name; <<>> is None.
\* A name is modelled by its digits and by whether a "Y" follows them.
maturity_from_irs(name) == IF name.hasY THEN <<name.digits>> ELSE <<>>

\* irs_rates after lines 68-76: dropna (line 69) drops the rows whose name
\* gave no maturity, no error is raised for them.
IrsRates(df) ==
    LET kept == {row \in df : maturity_from_irs(row.Name) # <<>>}
        Ts == {maturity_from_irs(row.Name)[1] : row \in kept}
    IN  [t \in Ts |->
            ToDecimal((CHOOSE row \in kept : maturity_from_irs(row.Name)[1] = t).Last)]

(************************* bootstrapping helpers ***************************)
RECURSIVE SumBelow(_, _)
SumBelow(d, T0) ==
    LET ks == {t \in DOMAIN d : t < T0}
    IN  IF ks = {} THEN 0
        ELSE LET k == Max(ks) IN SumBelow(d, k) + d[k]

\* Seeded fault: the numerator is not divided by 1 + S.
bootstrap_discount_factor_IRS_NoDenominator(S, T0, previous_discount_factors) ==
    (RateScale * Scale - S * SumBelow(previous_discount_factors, T0))
        \div RateScale

\* Seeded fault: the annuity term is added instead of subtracted.
bootstrap_discount_factor_IRS_SignSlip(S, T0, previous_discount_factors) ==
    (RateScale * Scale + S * SumBelow(previous_discount_factors, T0))
        \div (RateScale + S)

\* Seeded fault: the annuity sums every discount factor held, not only those
\* of maturities below T.
bootstrap_discount_factor_IRS_AllKeys(S, T0, previous_discount_factors) ==
    (RateScale * Scale
        - S * SumBelow(previous_discount_factors,
                       Max(DOMAIN previous_discount_factors \cup {T0}) + 1))
        \div (RateScale + S)

\* (1 - S * annuity) / (1 + S * alpha), alpha = 1.
bootstrap_discount_factor_IRS(S, T0, previous_discount_factors) ==
    (RateScale * Scale - S * SumBelow(previous_discount_factors, T0))
        \div (RateScale + S)

\* Seeded fault: the two weights are exchanged.
interpolate_LSR_Swapped(S_a, S_b, T_a, T_b, T0) ==
    ((T0 - T_a) * S_a + (T_b - T0) * S_b) \div (T_b - T_a)

\* ((T_b - T) / (T_b - T_a)) * S_a + ((T - T_a) / (T_b - T_a)) * S_b, over one
\* denominator.
interpolate_LSR(S_a, S_b, T_a, T_b, T0) ==
    ((T_b - T0) * S_a + (T0 - T_a) * S_b) \div (T_b - T_a)

\* Seeded fault: the midpoint is taken of [0, x_high].
BisectIterFromZero(lo, hi, fn) ==
    LET xm == hi \div 2
        f_mid == fn[xm]
        ret == Abs(f_mid) < tol
        left == Sign(fn[lo]) * Sign(f_mid) < 0
    IN  [x_mid |-> xm, ret |-> ret,
         x_low |-> IF ret \/ left THEN lo ELSE xm,
         x_high |-> IF ret \/ ~left THEN hi ELSE xm]

\* One pass of the body of the bisection loop (lines 101-108).  The test
\* f(x_low) * f_mid < 0 is made on the signs of the two factors.
BisectIter(lo, hi, fn) ==
    LET xm == (lo + hi) \div 2
        f_mid == fn[xm]
        ret == Abs(f_mid) < tol
        left == Sign(fn[lo]) * Sign(f_mid) < 0
    IN  [x_mid |-> xm, ret |-> ret,
         x_low |-> IF ret \/ left THEN lo ELSE xm,
         x_high |-> IF ret \/ ~left THEN hi ELSE xm]

\* n passes left of the loop, then the return of line 109.  A pass that
\* moves neither end is repeated unchanged by every pass left, so the
\* midpoint it computed is the one line 109 returns.
RECURSIVE BisectFrom(_, _, _, _)
BisectFrom(lo, hi, fn, n) ==
    LET it == BisectIter(lo, hi, fn)
    IN  IF it.ret \/ n = 1 \/ (it.x_low = lo /\ it.x_high = hi) THEN it.x_mid
        ELSE BisectFrom(it.x_low, it.x_high, fn, n - 1)

solve_constant_forward(lo, hi, fn) == BisectFrom(lo, hi, fn, max_iter)

\* f of solve_cfr (lines 127-132).
CfrF(x, P_a, ann_a, S_target, delta) ==
    LET xd == Pow(x, delta)
        summation == IF Abs(Scale - x) < tol THEN delta * x
                     ELSE (x * (Scale - xd)) \div (Scale - x)
    IN  (S_target * (ann_a + (P_a * summation) \div Scale)) \div RateScale
            - (Scale - (P_a * xd) \div Scale)

\* The bracket of line 135.
CfrLow == (8 * Scale) \div 10
CfrHigh == Scale

CfrSolution(P_a, ann_a, S_target, delta) ==
    solve_constant_forward(CfrLow, CfrHigh,
        [x \in CfrLow..CfrHigh |-> CfrF(x, P_a, ann_a, S_target, delta)])

\* Seeded fault: the discount factors fall linearly from P_a, by the first
\* step P_a * (1 - x) at every maturity.
solve_cfr_Linear(P_a, ann_a, S_target, delta) ==
    LET x_solution == CfrSolution(P_a, ann_a, S_target, delta)
    IN  [F |-> (RateScale * Scale) \div x_solution - RateScale,
         xs |-> [i \in 1..delta |->
                    (P_a * (Scale - i * (Scale - x_solution))) \div Scale]]

\* solve_cfr: F and the discount factors P_a * x^i, i = 1..delta.
solve_cfr(P_a, ann_a, S_target, delta) ==
    LET x_solution == CfrSolution(P_a, ann_a, S_target, delta)
    IN  [F |-> (RateScale * Scale) \div x_solution - RateScale,
         xs |-> [i \in 1..delta |-> (P_a * Pow(x_solution, i)) \div Scale]]


\* Seeded fault: the back-fill stops one maturity short of T_next.
RECURSIVE CfrFillOpen(_, _, _, _, _)
CfrFillOpen(P, A, xs, T_prev, i) ==
    IF i >= Len(xs) THEN [P |-> P, A |-> A]
    ELSE LET T_missing == T_prev + i
         IN  CfrFillOpen(Put(P, T_missing, xs[i]),
                         Put(A, T_missing, Get(A, T_missing - 1, 0) + xs[i]),
                         xs, T_prev, i + 1)

\* The back-fill of lines 194-196: entries T_prev+1 .. T_prev+Len(xs).
RECURSIVE CfrFill(_, _, _, _, _)
CfrFill(P, A, xs, T_prev, i) ==
    IF i > Len(xs) THEN [P |-> P, A |-> A]
    ELSE LET T_missing == T_prev + i
         IN  CfrFill(Put(P, T_missing, xs[i]),
                     Put(A, T_missing, Get(A, T_missing - 1, 0) + xs[i]),
                     xs, T_prev, i + 1)

\* bootstrap_method.upper()
Upper(m) == CASE m = "cfr" -> "CFR" [] m = "lsr" -> "LSR" [] OTHER -> m

ErrNoDeposit == "ValueError: 1-year deposit rate is required for bootstrapping."
ErrMethod == "ValueError: Invalid bootstrap_method specified. Use 'LSR' or 'CFR'."

\* Seeded fault: a value the CFR back-fill already stored at T0 is kept.
QuotedBranchKeep(T0, P, A, rates) ==
    IF T0 \in DOMAIN P THEN [P |-> P, A |-> A, error |-> ""]
    ELSE LET P_T == bootstrap_discount_factor_IRS(rates[T0], T0, P)
         IN  [P |-> Put(P, T0, P_T), A |-> Put(A, T0, Get(A, T0 - 1, 0) + P_T),
              error |-> ""]

\* Seeded fault: an annuity entry the CFR back-fill already stored at T0 is
\* kept when P(T0) is rewritten.
QuotedBranchStaleAnnuity(T0, P, A, rates) ==
    LET P_T == bootstrap_discount_factor_IRS(rates[T0], T0, P)
    IN  [P |-> Put(P, T0, P_T),
         A |-> IF T0 \in DOMAIN A THEN A
               ELSE Put(A, T0, Get(A, T0 - 1, 0) + P_T),
         error |-> ""]

\* Lines 160-163: T0 has a quoted IRS rate.
QuotedBranch(T0, P, A, rates) ==
    LET P_T == bootstrap_discount_factor_IRS(rates[T0], T0, P)
    IN  [P |-> Put(P, T0, P_T), A |-> Put(A, T0, Get(A, T0 - 1, 0) + P_T),
         error |-> ""]

\* Seeded fault: the anchor P(1), not P(T0 - 1), is carried forward.
FallbackBranchAnchor(T0, P, A) ==
    [P |-> Put(P, T0, P[1]),
     A |-> Put(A, T0, Get(A, T0 - 1, 0) + P[1]),
     error |-> ""]

\* Seeded fault: without a quote on one side the discount factor of a flat
\* 1 % curve is stored, not the previous one.
FallbackBranchFlatRate(T0, P, A) ==
    LET P_T == (P[T0 - 1] * 100) \div 101
    IN  [P |-> Put(P, T0, P_T),
         A |-> Put(A, T0, Get(A, T0 - 1, 0) + P_T),
         error |-> ""]

\* Lines 173-176: no quote on one side of T0.
FallbackBranch(T0, P, A) ==
    [P |-> Put(P, T0, P[T0 - 1]),
     A |-> Put(A, T0, Get(A, T0 - 1, 0) + P[T0 - 1]),
     error |-> ""]

\* Lines 180-185.
LsrBranch(T0, P, A, rates, T_prev, T_next) ==
    LET S_interpolated ==
            interpolate_LSR(rates[T_prev], rates[T_next], T_prev, T_next, T0)
        P_T == bootstrap_discount_factor_IRS(S_interpolated, T0, P)
    IN  [P |-> Put(P, T0, P_T), A |-> Put(A, T0, Get(A, T0 - 1, 0) + P_T),
         error |-> ""]

\* Seeded fault: the solver is given no annuity at T_prev.
CfrBranchNoAnnuity(P, A, rates, T_prev, T_next) ==
    LET sol == solve_cfr(P[T_prev], 0, rates[T_next], T_next - T_prev)
        filled == CfrFill(P, A, sol.xs, T_prev, 1)
    IN  [P |-> filled.P, A |-> filled.A, error |-> ""]

\* Lines 188-196.
CfrBranch(P, A, rates, T_prev, T_next) ==
    LET sol == solve_cfr(P[T_prev], A[T_prev], rates[T_next], T_next - T_prev)
        filled == CfrFill(P, A, sol.xs, T_prev, 1)
    IN  [P |-> filled.P, A |-> filled.A, error |-> ""]

\* Seeded fault: under CFR a maturity with quotes above it but none below
\* takes the nearest quote above as its rate instead of the carry-forward.
LoopBodyQuoteAbove(T0, P, A, rates, method) ==
    IF T0 \in DOMAIN rates
    THEN QuotedBranch(T0, P, A, rates)
    ELSE LET quoted_maturities == DOMAIN rates
             lower_candidates == {m \in quoted_maturities : m < T0}
             upper_candidates == {m \in quoted_maturities : m > T0}
         IN  IF Upper(method) = "CFR" /\ lower_candidates = {}
                    /\ upper_candidates # {}
             THEN QuotedBranch(T0, P, A,
                               Put(rates, T0, rates[Min(upper_candidates)]))
             ELSE IF lower_candidates = {} \/ upper_candidates = {}
             THEN FallbackBranch(T0, P, A)
             ELSE LET T_prev == Max(lower_candidates)
                      T_next == Min(upper_candidates)
                  IN  IF Upper(method) = "LSR" \/ T_prev \notin DOMAIN P
                      THEN LsrBranch(T0, P, A, rates, T_prev, T_next)
                      ELSE IF Upper(method) = "CFR"
                      THEN CfrBranch(P, A, rates, T_prev, T_next)
                      ELSE [P |-> P, A |-> A, error |-> ErrMethod]

\* Seeded fault: under CFR the gap is solved again from the maturity just
\* below T0, not from the quoted T_prev.
LoopBodyCfrFromPrevious(T0, P, A, rates, method) ==
    IF T0 \in DOMAIN rates
    THEN QuotedBranch(T0, P, A, rates)
    ELSE LET quoted_maturities == DOMAIN rates
             lower_candidates == {m \in quoted_maturities : m < T0}
             upper_candidates == {m \in quoted_maturities : m > T0}
         IN  IF lower_candidates = {} \/ upper_candidates = {}
             THEN FallbackBranch(T0, P, A)
             ELSE LET T_prev == Max(lower_candidates)
                      T_next == Min(upper_candidates)
                  IN  IF Upper(method) = "LSR" \/ T_prev \notin DOMAIN P
                      THEN LsrBranch(T0, P, A, rates, T_prev, T_next)
                      ELSE IF Upper(method) = "CFR"
                      THEN CfrBranch(P, A, rates, T0 - 1, T_next)
                      ELSE [P |-> P, A |-> A, error |-> ErrMethod]

\* Seeded fault: the method is checked at every unquoted maturity, before
\* the quotes around it are looked for.
LoopBodyEagerCheck(T0, P, A, rates, method) ==
    IF T0 \in DOMAIN rates
    THEN QuotedBranch(T0, P, A, rates)
    ELSE IF Upper(method) \notin {"LSR", "CFR"}
    THEN [P |-> P, A |-> A, error |-> ErrMethod]
    ELSE LET quoted_maturities == DOMAIN rates
             lower_candidates == {m \in quoted_maturities : m < T0}
             upper_candidates == {m \in quoted_maturities : m > T0}
         IN  IF lower_candidates = {} \/ upper_candidates = {}
             THEN FallbackBranch(T0, P, A)
             ELSE LET T_prev == Max(lower_candidates)
                      T_next == Min(upper_candidates)
                  IN  IF Upper(method) = "LSR" \/ T_prev \notin DOMAIN P
                      THEN LsrBranch(T0, P, A, rates, T_prev, T_next)
                      ELSE CfrBranch(P, A, rates, T_prev, T_next)

\* The body of the loop of lines 157-198 for one T0: the dictionaries after
\* it, and the error it raises ("" when none).
LoopBody(T0, P, A, rates, method) ==
    IF T0 \in DOMAIN rates
    THEN QuotedBranch(T0, P, A, rates)
    ELSE LET quoted_maturities == DOMAIN rates
             lower_candidates == {m \in quoted_maturities : m < T0}
             upper_candidates == {m \in quoted_maturities : m > T0}
         IN  IF lower_candidates = {} \/ upper_candidates = {}
             THEN FallbackBranch(T0, P, A)
             ELSE LET T_prev == Max(lower_candidates)
                      T_next == Min(upper_candidates)
                  IN  IF Upper(method) = "LSR" \/ T_prev \notin DOMAIN P
                      THEN LsrBranch(T0, P, A, rates, T_prev, T_next)
                      ELSE IF Upper(method) = "CFR"
                      THEN CfrBranch(P, A, rates, T_prev, T_next)
                      ELSE [P |-> P, A |-> A, error |-> ErrMethod]

\* Seeded fault: the logarithm is taken of |P| and only P = 0 is undefined.
SpotRateOfAbs(P_T, T0) ==
    IF P_T # 0 THEN (-Ln(Abs(P_T))) \div T0 ELSE NaN

\* Lines 204-207: -math.log(P) / T, or NaN.
SpotRate(P_T, T0) ==
    IF P_T > 0 THEN (-Ln(P_T)) \div T0 ELSE NaN

\* P_T_next / P_T for two positive factors: a positive float, at least one
\* fixed-point unit.
Ratio(P_T_next, P_T) ==
    LET q == (P_T_next * Scale) \div P_T IN IF q < 1 THEN 1 ELSE q

\* Lines 219-222: -math.log(P_T_next / P_T) / (T_next - T), or NaN.
ForwardRate(P_T, P_T_next, T0, T_next) ==
    IF P_T > 0 /\ P_T_next > 0
    THEN (-Ln(Ratio(P_T_next, P_T))) \div (T_next - T0)
    ELSE NaN

\* The keys of forward_rates: consecutive entries of sorted_maturities.
ConsecutivePairs(sorted_maturities) ==
    {pr \in sorted_maturities \X sorted_maturities :
        /\ pr[1] < pr[2]
        /\ \A m \in sorted_maturities : ~(pr[1] < m /\ m < pr[2])}

\* The loop of lines 157-198 from T0 to the horizon: the dictionaries when it
\* ends, or when a pass raises.
RECURSIVE BootstrapLoop(_, _, _, _, _)
BootstrapLoop(T0, P, A, rates, method) ==
    IF T0 > max_maturity THEN [P |-> P, A |-> A, error |-> ""]
    ELSE LET r == LoopBody(T0, P, A, rates, method)
         IN  IF r.error # "" THEN r
             ELSE BootstrapLoop(T0 + 1, r.P, r.A, rates, method)

\* Lines 146-198 as one run, for given deposit discount factors, swap rates
\* and method.
Bootstrap(deposit_dfs, rates, method) ==
    IF 360 \in DOMAIN deposit_dfs
    THEN BootstrapLoop(2, Put(<<>>, 1, deposit_dfs[360]),
                       Put(<<>>, 1, deposit_dfs[360]), rates, method)
    ELSE [P |-> <<>>, A |-> <<>>, error |-> ErrNoDeposit]

(******************************** coupons **********************************)
\* bond_characteristics of q1.py: 'Nominal Value', 'Floor' 0.016, 'Cap' 0.037.
notional == 1000
floor == (16 * RateScale) \div 10^3
cap == (37 * RateScale) \div 10^3

ErrTruthValue == "ValueError: The truth value of a Series is ambiguous."
ErrHolidays == "NameError: name 'holidays' is not defined"

\* q2_alt.py lines 78-82: the fixing of the reset date as a decimal rate;
\* <<>> is NaN (no row of that date).
ReferenceRate(fixing) ==
    IF fixing = <<>> THEN <<>>
    ELSE <<(fixing[1] * RateScale) \div (100 * CsvScale)>>

\* q2_alt.py lines 85-88: max(min(rate, cap), floor), NaN kept.
capped_rate(rate) ==
    IF rate = <<>> THEN <<>> ELSE <<Max({Min({rate[1], cap}), floor})>>

\* day_counter.yearFraction(start, end) of Actual/360, in fixed point.
yearFraction(days) == (days * Scale) \div 360

\* q2_alt.py line 92: notional * capped_rate * yf, NaN kept.
coupon(rate, yf) ==
    IF rate = <<>> THEN <<>> ELSE <<(notional * rate[1] * yf) \div RateScale>>

\* q2.py lines 91-101, get_reference_rate over the schedule: the value of the
\* "3M" column as the file gives it, None where the date has no row.
get_reference_rate(fixing) == fixing

(******************************** inputs ***********************************)
DepRow(ric, last) == [RIC |-> ric, Last |-> last]
\* The "Deposit Rates" sheet: the overnight and tom-next rows, then deposits.
\* "EUR2MD" is a deposit no branch of maturity_from_deposit recognises.
DepositSheets ==
    {<<DepRow("EUROND", 10), DepRow("EURTND", 10)>> \o body :
        body \in {<<DepRow("EUR6MD", 10)>>,
                  <<DepRow("EUR6MD", 10), DepRow("EUR1YD", 10)>>,
                  <<DepRow("EUR2MD", 10)>>,
                  <<DepRow("EUR2MD", 10), DepRow("EUR1YD", 10)>>}
             \cup {<<DepRow("EUR1YD", r)>> : r \in DepositLasts}}

IrsRow(n, last) == [Name |-> [digits |-> n, hasY |-> TRUE], Last |-> last]
\* A row whose name holds digits but no "<digits>Y".
IrsRowNoY(n, last) == [Name |-> [digits |-> n, hasY |-> FALSE], Last |-> last]
\* The "IRS Rates" sheet: at most MaxQuotes rows "<n>Y", one per maturity;
\* the sheet may quote beyond the grid.
ParseableSheets ==
    {{IrsRow(n, q[n]) : n \in Ns} :
        Ns \in {S \in SUBSET (1..max_maturity + 1) : Cardinality(S) <= MaxQuotes},
        q \in [1..max_maturity + 1 -> SwapLasts]}
\* Sheets with one more row, of a name without a maturity, beside at most one
\* parseable row.
IrsSheets ==
    ParseableSheets
        \cup {sheet \cup {IrsRowNoY(3, 18)} :
                sheet \in {sh \in ParseableSheets : Cardinality(sh) <= 1}}

Methods == {"LSR", "CFR", "cfr", "XYZ"}

Grid == 0..GridMax

\* Coupon schedules: per period the fixing of its reset date (<<>> when the
\* file has no row for it) and its length in days.
Period(fixing, days) == [fixing |-> fixing, days |-> days]
Schedules ==
    UNION {[1..n -> {Period(fx, d) : fx \in {<<>>} \cup {<<v>> : v \in Fixings},
                                     d \in PeriodDays}] : n \in 1..MaxPeriods}
Scripts == {"q2_alt", "q2", "q2_test"}

(********************************* state ***********************************)
VARIABLES
    mode,                           \* "bootstrap" | "solver" | "coupon"
    pc,
    script, schedule,               \* the coupon script run, and its periods
    coupon_data, period,            \* rows built so far; periods handled
    deposits_df, irs_df, bootstrap_method,
    deposit_discount_factors, irs_rates,
    bootstrapped_discount_factors, annuity,
    T,                              \* the loop variable of line 157
    spot_rates, forward_rates,
    error,
    f, bracket,                     \* the solver's arguments as passed
    x_low, x_high, x_mid, iter,     \* its locals; iter counts passes begun
    x_solution                      \* its return value, <<>> before it returns

inputs == <<mode, deposits_df, irs_df, bootstrap_method, f, bracket, script,
            schedule>>
coupons == <<coupon_data, period>>
curve == <<bootstrapped_discount_factors, annuity>>
rates == <<spot_rates, forward_rates>>
solver == <<x_low, x_high, x_mid, iter, x_solution>>
vars == <<mode, pc, script, schedule, coupon_data, period, deposits_df, irs_df, bootstrap_method,
          deposit_discount_factors, irs_rates, bootstrapped_discount_factors,
          annuity, T, spot_rates, forward_rates, error, f, bracket, x_low,
          x_high, x_mid, iter, x_solution>>

InitBootstrap ==
    /\ mode = "bootstrap"
    /\ pc = "deposits"
    /\ deposits_df \in DepositSheets
    /\ irs_df \in IrsSheets
    /\ bootstrap_method \in Methods
    /\ f = <<>> /\ bracket = <<0, 0>>
    /\ x_low = 0 /\ x_high = 0
    /\ script = "" /\ schedule = <<>>

InitSolver ==
    /\ mode = "solver"
    /\ pc = "bisect"
    /\ deposits_df = <<>> /\ irs_df = {} /\ bootstrap_method = ""
    /\ f \in [Grid -> FVals]
    /\ bracket \in {b \in Grid \X Grid : b[1] <= b[2]}
    /\ x_low = bracket[1] /\ x_high = bracket[2]
    /\ script = "" /\ schedule = <<>>

InitCoupon ==
    /\ mode = "coupon"
    /\ script \in Scripts
    /\ schedule \in Schedules
    /\ pc = CASE script = "q2_alt" -> "coupons"
              [] script = "q2" -> "reference"
              [] script = "q2_test" -> "adjust"
    /\ deposits_df = <<>> /\ irs_df = {} /\ bootstrap_method = ""
    /\ f = <<>> /\ bracket = <<0, 0>>
    /\ x_low = 0 /\ x_high = 0

Init ==
    /\ InitBootstrap \/ InitSolver \/ InitCoupon
    /\ coupon_data = <<>> /\ period = 0
    /\ deposit_discount_factors = <<>> /\ irs_rates = <<>>
    /\ bootstrapped_discount_factors = <<>> /\ annuity = <<>>
    /\ T = 0 /\ error = ""
    /\ spot_rates = <<>> /\ forward_rates = <<>>
    /\ x_mid = 0 /\ iter = 0 /\ x_solution = <<>>

(******************************** actions **********************************)
\* Lines 55-65.
ProcessDeposits ==
    /\ pc = "deposits"
    /\ deposit_discount_factors' =
           DepositLoop(deposit_data(deposits_df),
                       TColumn(deposit_data(deposits_df)), 1, <<>>)
    /\ pc' = "irs"
    /\ UNCHANGED <<inputs, coupons, irs_rates, curve, rates, T, error, solver>>

\* Lines 68-76.
ProcessIRS ==
    /\ pc = "irs"
    /\ irs_rates' = IrsRates(irs_df)
    /\ pc' = "anchor"
    /\ UNCHANGED <<inputs, coupons, deposit_discount_factors, curve, rates, T, error, solver>>

\* Seeded fault: a missing 1-year deposit is replaced by P(1) = 1.
AnchorGuess ==
    /\ pc = "anchor"
    /\ LET P1 == Get(deposit_discount_factors, 360, Scale)
       IN  /\ bootstrapped_discount_factors' = Put(<<>>, 1, P1)
           /\ annuity' = Put(<<>>, 1, P1)
    /\ pc' = "loop" /\ T' = 2
    /\ UNCHANGED <<error, inputs, coupons, deposit_discount_factors,
                   irs_rates, rates, solver>>

\* Lines 146-154.
Anchor ==
    /\ pc = "anchor"
    /\ IF 360 \in DOMAIN deposit_discount_factors
       THEN /\ bootstrapped_discount_factors' = Put(<<>>, 1, deposit_discount_factors[360])
            /\ annuity' = Put(<<>>, 1, deposit_discount_factors[360])
            /\ pc' = "loop" /\ T' = 2
            /\ UNCHANGED error
       ELSE /\ pc' = "failed" /\ error' = ErrNoDeposit
            /\ UNCHANGED <<curve, T>>
    /\ UNCHANGED <<inputs, coupons, deposit_discount_factors, irs_rates, rates, solver>>

\* One pass of the loop of lines 157-198.
BootstrapStep ==
    /\ pc = "loop"
    /\ LET r == LoopBody(T, bootstrapped_discount_factors, annuity, irs_rates,
                         bootstrap_method)
       IN  IF r.error # ""
           THEN /\ pc' = "failed" /\ error' = r.error
                /\ UNCHANGED <<curve, T>>
           ELSE /\ bootstrapped_discount_factors' = r.P
                /\ annuity' = r.A
                /\ IF T < max_maturity
                   THEN T' = T + 1 /\ pc' = "loop"
                   ELSE T' = T /\ pc' = "done"
                /\ UNCHANGED error
    /\ UNCHANGED <<inputs, coupons, deposit_discount_factors, irs_rates, rates, solver>>

\* Seeded fault: the curve is given the entry P(0) = 1 before the forward
\* rates are computed.
DeriveRatesSeedZero ==
    /\ pc = "done"
    /\ bootstrapped_discount_factors' =
           Put(bootstrapped_discount_factors, 0, Scale)
    /\ spot_rates' =
           [t \in DOMAIN bootstrapped_discount_factors |->
               SpotRate(bootstrapped_discount_factors[t], t)]
    /\ forward_rates' =
           [pr \in ConsecutivePairs(DOMAIN bootstrapped_discount_factors') |->
               ForwardRate(bootstrapped_discount_factors'[pr[1]],
                           bootstrapped_discount_factors'[pr[2]], pr[1], pr[2])]
    /\ pc' = "derived"
    /\ UNCHANGED <<inputs, coupons, deposit_discount_factors, irs_rates, annuity, T,
                   error, solver>>

\* Lines 202-223: the spot rates, then the forward rates.
DeriveRates ==
    /\ pc = "done"
    /\ spot_rates' =
           [t \in DOMAIN bootstrapped_discount_factors |->
               SpotRate(bootstrapped_discount_factors[t], t)]
    /\ forward_rates' =
           [pr \in ConsecutivePairs(DOMAIN bootstrapped_discount_factors) |->
               ForwardRate(bootstrapped_discount_factors[pr[1]],
                           bootstrapped_discount_factors[pr[2]], pr[1], pr[2])]
    /\ pc' = "derived"
    /\ UNCHANGED <<inputs, coupons, deposit_discount_factors, irs_rates, curve, T, error,
                   solver>>

\* Seeded fault: the loop is not bounded by max_iter.
BisectPassUnbounded ==
    /\ pc = "bisect"
    /\ LET it == BisectIter(x_low, x_high, f)
       IN  /\ x_mid' = it.x_mid
           /\ x_low' = it.x_low
           /\ x_high' = it.x_high
           /\ iter' = iter + 1
           /\ IF it.ret
              THEN pc' = "returned" /\ x_solution' = <<it.x_mid>>
              ELSE pc' = "bisect" /\ UNCHANGED x_solution
    /\ UNCHANGED <<inputs, coupons, deposit_discount_factors, irs_rates, curve, rates, T,
                   error>>

\* One pass of the loop of lines 100-108 of solve_constant_forward.
BisectPass ==
    /\ pc = "bisect"
    /\ iter < max_iter
    /\ LET it == BisectIter(x_low, x_high, f)
       IN  /\ x_mid' = it.x_mid
           /\ x_low' = it.x_low
           /\ x_high' = it.x_high
           /\ iter' = iter + 1
           /\ IF it.ret
              THEN pc' = "returned" /\ x_solution' = <<it.x_mid>>
              ELSE pc' = "bisect" /\ UNCHANGED x_solution
    /\ UNCHANGED <<inputs, coupons, deposit_discount_factors, irs_rates, curve, rates, T,
                   error>>

\* Line 109: the loop is exhausted.
ReturnLast ==
    /\ pc = "bisect"
    /\ iter = max_iter
    /\ pc' = "returned"
    /\ x_solution' = <<x_mid>>
    /\ UNCHANGED <<inputs, coupons, deposit_discount_factors, irs_rates, curve, rates, T,
                   error, x_low, x_high, x_mid, iter>>

\* q2_alt.py lines 71-101: one coupon period of build_historical_coupons.
CouponPeriod ==
    /\ pc = "coupons"
    /\ period < Len(schedule)
    /\ LET row == schedule[period + 1]
           rate == ReferenceRate(row.fixing)
           yf == yearFraction(row.days)
       IN  coupon_data' =
               Append(coupon_data,
                      [reference_rate |-> rate,
                       coupon_rate |-> capped_rate(rate),
                       yf |-> yf,
                       coupon_amount |-> coupon(capped_rate(rate), yf)])
    /\ period' = period + 1
    /\ pc' = "coupons"
    /\ UNCHANGED <<inputs, deposit_discount_factors, irs_rates, curve, rates, T,
                   error, solver>>

\* q2_alt.py lines 103 and 113-114: the table is returned and printed.
PrintCoupons ==
    /\ pc = "coupons"
    /\ period = Len(schedule)
    /\ pc' = "printed"
    /\ UNCHANGED <<inputs, coupons, deposit_discount_factors, irs_rates, curve,
                   rates, T, error, solver>>

\* q2.py line 101: the reference_rate column of df_schedule.
ReferenceRates ==
    /\ pc = "reference"
    /\ coupon_data' =
           [k \in DOMAIN schedule |->
               [reference_rate |-> get_reference_rate(schedule[k].fixing)]]
    /\ period' = Len(schedule)
    /\ pc' = "clamp"
    /\ UNCHANGED <<inputs, deposit_discount_factors, irs_rates, curve, rates, T,
                   error, solver>>

\* q2.py line 103: the builtin max compares the float with the whole column,
\* and the truth value of the Series this gives is asked for: the script
\* ends there, lines 105-112 (the coupon amounts) are not reached.
CouponRate ==
    /\ pc = "clamp"
    /\ pc' = "failed" /\ error' = ErrTruthValue
    /\ UNCHANGED <<inputs, coupons, deposit_discount_factors, irs_rates, curve,
                   rates, T, solver>>

\* q2_test.py line 118: main reads the name holidays, which no statement
\* binds (line 107 is a comment); lines 121-134 are not reached.
AdjustDates ==
    /\ pc = "adjust"
    /\ pc' = "failed" /\ error' = ErrHolidays
    /\ UNCHANGED <<inputs, coupons, deposit_discount_factors, irs_rates, curve,
                   rates, T, solver>>

Next ==
    \/ ProcessDeposits
    \/ ProcessIRS
    \/ Anchor
    \/ BootstrapStep
    \/ DeriveRates
    \/ BisectPass
    \/ ReturnLast
    \/ CouponPeriod
    \/ PrintCoupons
    \/ ReferenceRates
    \/ CouponRate
    \/ AdjustDates

Spec == Init /\ [][Next]_vars


(******************************* properties ********************************)
P == bootstrapped_discount_factors
IsLSR == Upper(bootstrap_method) = "LSR"
IsCFR == Upper(bootstrap_method) = "CFR"
Started == mode = "bootstrap" /\ pc \in {"loop", "done", "derived", "failed"}
Finished == mode = "bootstrap" /\ pc = "done"

\* The deposit rows the script reads, and the 1-year quote among them.
DepositRows == {deposits_df[i] : i \in 3..Len(deposits_df)}
Has1YDeposit == \E row \in DepositRows : row.RIC = "EUR1YD"
Last1Y == (CHOOSE row \in DepositRows : row.RIC = "EUR1YD").Last

\* Maturities with a swap quote, as the IRS sheet gives them.
QuotedT == {row.Name.digits : row \in {r \in irs_df : r.Name.hasY}}
SwapRate(t) == ((CHOOSE row \in irs_df : row.Name.hasY /\ row.Name.digits = t).Last
                    * RateScale) \div (100 * PctScale)

\* P(1) + ... + P(n) of a curve.
RECURSIVE SumTo(_, _)
SumTo(c, n) == IF n = 0 THEN 0 ELSE SumTo(c, n - 1) + c[n]

\* C1: without a 1-year deposit quote the bootstrap fails with the
\* missing-anchor error and no discount factor or annuity entry is written;
\* no value is substituted for P(1).
C1_MissingAnchorFails ==
    (Started /\ ~Has1YDeposit) =>
        /\ pc = "failed" /\ error = ErrNoDeposit
        /\ bootstrapped_discount_factors = <<>> /\ annuity = <<>>

C1_Witness ==
    /\ mode = "bootstrap" /\ pc = "failed" /\ error = ErrNoDeposit
    /\ irs_rates # <<>> /\ deposit_discount_factors # <<>>

\* C2: in the finished curve, under LSR and under CFR, every maturity T in
\* 2..horizon with a swap quote S(T) has
\* P(T) = (1 - S(T) * (P(1) + ... + P(T-1))) / (1 + S(T)).
C2_ParSwapAtQuoted ==
    Finished =>
        \A t \in QuotedT \cap 2..max_maturity :
            P[t] = (RateScale * Scale - SwapRate(t) * SumTo(P, t - 1))
                       \div (RateScale + SwapRate(t))

\* A finished CFR run whose back-fill had stored a value at a quoted maturity.
C2_Witness ==
    /\ Finished /\ IsCFR
    /\ \E t \in QuotedT \cap 3..max_maturity :
          /\ t - 1 \notin QuotedT
          /\ \E u \in QuotedT : u < t

\* C3: after the anchor, P(1) = 1 / (1 + r), r the 1-year deposit rate as a
\* decimal (the quoted percentage / 100); no swap quote, a 1Y swap quote
\* included, changes it.
C3_AnchorFromDeposit ==
    (Started /\ Has1YDeposit) =>
        /\ 1 \in DOMAIN P
        /\ P[1] = (Scale * RateScale)
                      \div (RateScale + (Last1Y * RateScale) \div (100 * PctScale))

C3_Witness ==
    /\ Finished /\ IsCFR /\ 1 \in QuotedT /\ 2 \notin QuotedT
    /\ \E u \in QuotedT : 2 < u /\ u <= max_maturity
    /\ P[1] = (Scale * RateScale) \div (RateScale + (Last1Y * RateScale) \div (100 * PctScale))


\* C4 (as claimed): a completed bootstrap holds a discount factor and an
\* annuity entry at every maturity 1..horizon and at no other maturity.
C4_GridOnly ==
    Finished =>
        /\ DOMAIN bootstrapped_discount_factors = 1..max_maturity
        /\ DOMAIN annuity = 1..max_maturity

\* Maturities the loop has passed: their discount factors are final.
Settled ==
    {t \in DOMAIN bootstrapped_discount_factors :
        pc \in {"done", "derived"} \/ t < T}

C6_NoNonPositiveStored ==
    mode = "bootstrap" =>
        \A t \in DOMAIN bootstrapped_discount_factors :
            bootstrapped_discount_factors[t] > 0

(* The solver called directly. *)
Returned == mode = "solver" /\ pc = "returned"
SameSignEnds == Sign(f[bracket[1]]) * Sign(f[bracket[2]]) > 0
OppositeSignEnds == Sign(f[bracket[1]]) * Sign(f[bracket[2]]) < 0

\* C7 (as claimed): with f of the same sign at both ends of the initial
\* bracket the solver raises and never returns a value.
C7_UnbracketedNeverReturns ==
    (mode = "solver" /\ SameSignEnds) => pc # "returned"

\* C8 (as claimed): with f of opposite signs at the ends of the initial
\* bracket the solver returns, within max_iter passes, an x with
\* |f(x)| < tol.
C8_BracketedResidual ==
    (Returned /\ OppositeSignEnds) =>
        /\ iter <= max_iter
        /\ Abs(f[x_solution[1]]) < tol

\* C9 (as claimed): when max_iter passes end without |f(x_mid)| < tol the
\* solver fails; the last midpoint is not returned as a solution.
C9_LastMidpointNotReturned ==
    (Returned /\ iter = max_iter) => Abs(f[x_mid]) < tol

\* Passes and stages a run still has before it: 0 once it has ended.
StepsLeft ==
    CASE pc = "deposits" -> max_maturity + 3
      [] pc = "irs" -> max_maturity + 2
      [] pc = "anchor" -> max_maturity + 1
      [] pc = "loop" -> max_maturity + 2 - T
      [] pc = "done" -> 1
      [] pc = "bisect" -> max_iter + 1 - iter
      [] pc = "coupons" -> Len(schedule) + 1 - period
      [] pc = "reference" -> 2
      [] pc \in {"clamp", "adjust"} -> 1
      [] OTHER -> 0

\* C10: the solver makes at most max_iter passes and then returns, for
\* every f and bracket; the bootstrap loop starts at maturity 2, advances by
\* one maturity per pass and ends with the pass for the horizon.  Every
\* step takes the run strictly closer to its end, and a call of the solver
\* that has not returned can always take a step.
C10_Terminates ==
    /\ [](iter <= max_iter)
    /\ [](pc = "loop" => T \in 2..max_maturity)
    /\ [](StepsLeft >= 0)
    /\ [](pc = "bisect" => ENABLED (BisectPass \/ ReturnLast))
    /\ [][StepsLeft' < StepsLeft]_vars
    /\ [][pc = "loop" =>
            \/ pc' = "failed" /\ T' = T
            \/ pc' = "loop" /\ T < max_maturity /\ T' = T + 1
            \/ pc' = "done" /\ T = max_maturity]_vars

\* A call that used every pass, the last midpoint being returned.
C10_Witness == Returned /\ iter = max_iter /\ Abs(f[x_mid]) >= tol

(* Gap filling. *)
\* Consecutive quoted maturities <<a, b>> with an unquoted maturity between.
Gaps ==
    {g \in QuotedT \X QuotedT :
        /\ g[1] + 1 < g[2]
        /\ \A u \in QuotedT : ~(g[1] < u /\ u < g[2])}

\* C11: under CFR, for consecutive quoted maturities T_prev < T_next, every
\* unquoted T_prev + k between them has P(T_prev + k) = P(T_prev) * x^k, x the
\* one value the solver returns for the gap (called with P(T_prev), the
\* annuity at T_prev, S(T_next) and T_next - T_prev).
C11_CfrConstantRatio ==
    (Finished /\ IsCFR) =>
        \A g \in Gaps :
            LET x == CfrSolution(P[g[1]], annuity[g[1]], SwapRate(g[2]),
                                 g[2] - g[1])
            IN  \A k \in 1..(g[2] - g[1] - 1) :
                    P[g[1] + k] = (P[g[1]] * Pow(x, k)) \div Scale

\* A finished CFR run with a gap of at least two unquoted maturities whose
\* discount factors differ.
C11_Witness ==
    /\ Finished /\ IsCFR
    /\ \E g \in Gaps :
          /\ g[1] + 2 < g[2]
          /\ P[g[1] + 2] < P[g[1] + 1] /\ P[g[1] + 1] < P[g[1]]


\* C12: under LSR, an unquoted T with nearest quoted maturities
\* T_prev < T < T_next has P(T) = (1 - S_T * (P(1) + ... + P(T-1))) / (1 + S_T),
\* S_T = ((T_next - T) * S(T_prev) + (T - T_prev) * S(T_next)) / (T_next - T_prev).
C12_LsrInterpolated ==
    (Finished /\ IsLSR) =>
        \A g \in Gaps : \A t \in (g[1] + 1)..(g[2] - 1) :
            LET S_T == ((g[2] - t) * SwapRate(g[1]) + (t - g[1]) * SwapRate(g[2]))
                           \div (g[2] - g[1])
            IN  P[t] = (RateScale * Scale - S_T * SumTo(P, t - 1))
                           \div (RateScale + S_T)

\* A finished LSR run with a gap of at least two unquoted maturities between
\* quotes of different rates.
C12_Witness ==
    /\ Finished /\ IsLSR
    /\ \E g \in Gaps :
          /\ g[1] + 2 < g[2]
          /\ SwapRate(g[1]) # SwapRate(g[2])


\* C13: every maturity T above the largest quoted swap maturity T_last, up
\* to the horizon, holds P(T) = P(T_last), under either policy.
C13_FlatBeyondLastQuote ==
    (Finished /\ QuotedT # {}) =>
        \A t \in (Max(QuotedT) + 1)..max_maturity : P[t] = P[Max(QuotedT)]

\* A finished run whose last quote lies at least two maturities below the
\* horizon and moved the curve.
C13_Witness ==
    /\ Finished /\ QuotedT # {}
    /\ 1 < Max(QuotedT) /\ Max(QuotedT) + 1 < max_maturity
    /\ P[Max(QuotedT)] # P[1]
    /\ P[max_maturity] = P[Max(QuotedT)]


(* The two policies on the same quotes. *)
\* The run of the other policy on the quotes of this run.
OtherPolicy == IF IsLSR THEN "CFR" ELSE "LSR"
OtherCurve == Bootstrap(deposit_discount_factors, irs_rates, OtherPolicy).P
\* The first gap-filled maturity: the lowest unquoted maturity between two
\* quoted ones (above the horizon when there is none).
FirstGapT ==
    IF Gaps = {} THEN max_maturity + 1 ELSE Min({g[1] + 1 : g \in Gaps})

\* C14 (as claimed): for the same quotes the LSR and the CFR curve hold the
\* same P(T) at every directly quoted swap maturity T.
C14_AgreeAtQuoted ==
    (Finished /\ (IsLSR \/ IsCFR)) =>
        \A t \in QuotedT \cap 2..max_maturity : P[t] = OtherCurve[t]

\* C14 (amended): for the same quotes the LSR and the CFR curve hold the
\* same P(T) at every maturity, quoted or carried forward, below the first
\* gap-filled maturity, and the same curve when no maturity is gap-filled.
C14_AgreeBelowFirstGap ==
    (Finished /\ (IsLSR \/ IsCFR)) =>
        /\ \A t \in 1..max_maturity : t < FirstGapT => P[t] = OtherCurve[t]
        /\ Gaps = {} => P = OtherCurve

\* A finished run with a quoted maturity below its first gap, where the two
\* curves agree after a carry-forward, and a quoted maturity above the gap
\* where they differ.
C14_Witness ==
    /\ Finished /\ IsLSR
    /\ 3 < FirstGapT /\ FirstGapT <= max_maturity
    /\ 2 \notin QuotedT /\ 1 \notin QuotedT
    /\ P[FirstGapT - 1] = OtherCurve[FirstGapT - 1]
    /\ \E t \in QuotedT \cap 2..max_maturity :
          t > FirstGapT /\ P[t] # OtherCurve[t]


\* C15 (as claimed): a run that fails leaves no partial curve: no discount
\* factor or annuity entry written by the run remains.
C15_FailsAtomically ==
    (mode = "bootstrap" /\ pc = "failed") =>
        bootstrapped_discount_factors = <<>> /\ annuity = <<>>


(* Rate derivation. *)
Derived == mode = "bootstrap" /\ pc = "derived"

\* C16: deriving the rates never raises on a non-positive discount factor:
\* the zero rate at T is NaN when P(T) <= 0 and -ln(P(T)) / T otherwise; the
\* forward rate between consecutive grid points T, T' is NaN when P(T) <= 0
\* or P(T') <= 0 and -ln(P(T') / P(T)) / (T' - T) otherwise.
C16_RatesUndefinedNotRaised ==
    /\ Finished => ENABLED DeriveRates
    /\ Derived =>
        /\ error = ""
        /\ DOMAIN spot_rates = DOMAIN P
        /\ \A t \in DOMAIN P :
              spot_rates[t] = IF P[t] <= 0 THEN NaN ELSE (-Ln(P[t])) \div t
        /\ DOMAIN forward_rates = {<<t, t + 1>> : t \in DOMAIN P \ {Max(DOMAIN P)}}
        /\ \A t \in DOMAIN P \ {Max(DOMAIN P)} :
              forward_rates[<<t, t + 1>>] =
                  IF P[t] <= 0 \/ P[t + 1] <= 0 THEN NaN
                  ELSE -Ln(IF (P[t + 1] * Scale) \div P[t] < 1 THEN 1
                           ELSE (P[t + 1] * Scale) \div P[t])

\* Rates derived from a curve with positive and negative discount factors:
\* defined and undefined zero rates, defined and undefined forward rates.
C16_Witness ==
    /\ Derived
    /\ \E t \in DOMAIN P : P[t] < 0 /\ spot_rates[t] = NaN
    /\ \E t \in DOMAIN P : P[t] > 0 /\ spot_rates[t] > 0
    /\ \E pr \in DOMAIN forward_rates :
          P[pr[1]] > 0 /\ P[pr[2]] <= 0 /\ forward_rates[pr] = NaN
    /\ \E pr \in DOMAIN forward_rates :
          forward_rates[pr] # NaN /\ forward_rates[pr] > 0

\* C17: computing the zero and forward rates leaves the curve unchanged: the
\* same maturities and the same P(T) before and after.
C17_DerivationKeepsCurve ==
    [][pc = "done" =>
          /\ DOMAIN bootstrapped_discount_factors'
                 = DOMAIN bootstrapped_discount_factors
          /\ \A t \in DOMAIN bootstrapped_discount_factors :
                 bootstrapped_discount_factors'[t]
                     = bootstrapped_discount_factors[t]]_vars

\* Rates derived from a finished curve, at every maturity and between every
\* two consecutive ones.
C17_Witness ==
    /\ Derived
    /\ DOMAIN spot_rates = DOMAIN bootstrapped_discount_factors
    /\ Cardinality(DOMAIN forward_rates) + 1
           = Cardinality(DOMAIN bootstrapped_discount_factors)
    /\ \E t \in DOMAIN spot_rates : spot_rates[t] # NaN


(* Ingestion. *)
\* Swap rows whose name holds no "<integer>Y".
MalformedQuotes == {row \in irs_df : ~row.Name.hasY}

\* C18 (as claimed): a swap quote whose name holds no "<integer>Y" maturity
\* is rejected with an error of its own during ingestion, the run going no
\* further; it is never dropped from the quotes.
C18_MalformedQuoteRejected ==
    (mode = "bootstrap" /\ MalformedQuotes # {}) =>
        \/ pc \in {"deposits", "irs"}
        \/ pc = "failed" /\ error \notin {ErrNoDeposit, ErrMethod}

\* The deposits the static table recognises, and the rows read that are not
\* among them.
RecognisedDeposits ==
    {"EURSWD", "EUR1MD", "EUR3MD", "EUR6MD", "EUR9MD", "EUR1YD"}
UnrecognisedRows == {row \in DepositRows : row.RIC \notin RecognisedDeposits}
\* The sheet without its unrecognised rows, and the deposit table it gives.
RecognisedSheet ==
    SelectSeq(deposits_df,
              LAMBDA row : row.RIC \in RecognisedDeposits \cup {"EUROND", "EURTND"})
RecognisedTable ==
    DepositLoop(deposit_data(RecognisedSheet),
                TColumn(deposit_data(RecognisedSheet)), 1, <<>>)

\* C19 (as claimed): a deposit quote with an unrecognised identifier is
\* ignored: it adds no discount factor to the deposit table, changes no P(T)
\* of the curve and does not make the bootstrap fail.
C19_UnrecognisedIgnored ==
    (mode = "bootstrap" /\ pc # "deposits") =>
        /\ deposit_discount_factors = RecognisedTable
        /\ Has1YDeposit => error # ErrNoDeposit
        /\ pc \in {"done", "derived"} =>
              P = Bootstrap(RecognisedTable, irs_rates, bootstrap_method).P

\* The parts of C19 that hold: the entries of the recognised deposits, the
\* curve and the outcome are those of the sheet without the row.
C19_CurveUnaffected ==
    (mode = "bootstrap" /\ pc # "deposits") =>
        /\ \A k \in DOMAIN RecognisedTable :
              /\ k \in DOMAIN deposit_discount_factors
              /\ deposit_discount_factors[k] = RecognisedTable[k]
        /\ \A k \in DOMAIN deposit_discount_factors \ DOMAIN RecognisedTable :
              deposit_discount_factors[k] = NaN
        /\ Has1YDeposit => error # ErrNoDeposit
        /\ pc \in {"done", "derived"} =>
              P = Bootstrap(RecognisedTable, irs_rates, bootstrap_method).P


(* The scenario: deposits {1Y: 1.0 %}, swaps {2Y: 1.2 %, 5Y: 1.8 %}. *)
Scenario ==
    /\ mode = "bootstrap"
    /\ DepositRows = {DepRow("EUR1YD", PctScale)}
    /\ irs_df = {IrsRow(2, (12 * PctScale) \div 10), IrsRow(5, (18 * PctScale) \div 10)}
\* A discount factor agrees with a value given to six decimals when it is
\* less than one fixed-point unit away from it.
Near(v, millionths) ==
    Abs(v * (10^6 \div Scale) - millionths) < 10^6 \div Scale

\* C20 (as claimed): in the scenario P(1) = 1/1.01 = 0.990099 and
\* P(2) = 0.976685 to six decimals.
C20_ScenarioAsClaimed ==
    (Scenario /\ 2 \in Settled) => Near(P[1], 990099) /\ Near(P[2], 976685)

\* C20 (amended): in the scenario P(1) = 1/1.01 = 0.990099 and
\* P(2) = 0.976402 to six decimals, the solution of
\* 0.012 * P(1) + 1.012 * P(2) = 1.
C20_ScenarioSolved ==
    (Scenario /\ 2 \in Settled) =>
        /\ Near(P[1], 990099)
        /\ Near(P[2], 976402)
        /\ Abs(SwapRate(2) * P[1] + (RateScale + SwapRate(2)) * P[2]
                   - RateScale * Scale) < RateScale + SwapRate(2)

\* The scenario run to its end under CFR.
C20_Witness == Scenario /\ Finished /\ IsCFR /\ P[2] < P[1]


\* C21: in the scenario under CFR the curve falls strictly over maturities
\* 1..5, the gap 3, 4 is filled from P(2) with the x solved for the annuity
\* P(1) + P(2) at its start, and P(5) satisfies
\* 0.018 * (P(1) + ... + P(5)) = 1 - P(5).
C21_ScenarioCfrDecreasing ==
    (Scenario /\ IsCFR /\ Finished) =>
        /\ \A t \in 2..5 : P[t] < P[t - 1]
        /\ annuity[2] = P[1] + P[2]
        /\ LET x == CfrSolution(P[2], P[1] + P[2], SwapRate(5), 3)
           IN  \A k \in 1..2 : P[2 + k] = (P[2] * Pow(x, k)) \div Scale
        /\ LET residual == RateScale * (Scale - P[5]) - SwapRate(5) * SumTo(P, 5)
           IN  0 <= residual /\ residual < RateScale + SwapRate(5)

\* The scenario run to its end under CFR, P(5) = 0.914135 to four decimals.
C21_Witness ==
    /\ Scenario /\ IsCFR /\ Finished
    /\ P[5] < P[4] /\ Abs(P[5] * (10^6 \div Scale) - 914135) < 10^6 \div Scale


(* The order of the loop. *)
\* A dictionary without its entries at maturities n and above.
Below(d, n) == [t \in {k \in DOMAIN d : k < n} |-> d[t]]

\* C22: the loop takes the maturities 2, 3, ..., horizon in increasing order,
\* and what the pass for T writes, at T and ahead of it, is what it writes
\* when no discount factor or annuity entry at T or above is there to read:
\* no P(T) depends on a discount factor of a later maturity.
C22_ForwardOnly ==
    [][/\ pc = "anchor" /\ pc' = "loop" => T' = 2
       /\ pc = "loop" /\ pc' = "loop" => T' = T + 1
       /\ pc = "loop" /\ pc' # "failed" =>
             LET r == LoopBody(T, Below(bootstrapped_discount_factors, T),
                               Below(annuity, T), irs_rates, bootstrap_method)
             IN  /\ T \in DOMAIN r.P
                 /\ DOMAIN r.P \subseteq DOMAIN bootstrapped_discount_factors'
                 /\ \A m \in DOMAIN bootstrapped_discount_factors' :
                       bootstrapped_discount_factors'[m] =
                           IF m \in DOMAIN r.P THEN r.P[m]
                           ELSE bootstrapped_discount_factors[m]]_vars

\* A CFR run inside its loop, past the first maturity of a gap, with
\* discount factors held ahead of the loop position.
C22_Witness ==
    /\ mode = "bootstrap" /\ pc = "loop" /\ IsCFR
    /\ T > 2 /\ T \in QuotedT
    /\ T \in DOMAIN bootstrapped_discount_factors
    /\ bootstrapped_discount_factors[T] # bootstrapped_discount_factors[T - 1]


(* The annuity cache. *)
\* C23: after the anchor and after every pass of the loop, and in the
\* finished curve, annuity(T) = P(1) + ... + P(T) at every maturity with an
\* entry; the annuity(T_prev) a CFR pass reads is the sum the direct
\* recurrence computes from the curve.
C23_AnnuityIsSum ==
    Started =>
        /\ DOMAIN annuity = DOMAIN bootstrapped_discount_factors
        /\ \A t \in DOMAIN annuity : annuity[t] = SumTo(P, t)
        /\ (pc = "loop" /\ IsCFR) =>
              \A g \in Gaps :
                  (g[1] < T /\ T < g[2]) =>
                      annuity[g[1]] = SumBelow(P, g[1] + 1)

\* A finished CFR run whose back-fill wrote an entry beyond the horizon.
C23_Witness ==
    /\ Finished /\ IsCFR
    /\ DOMAIN annuity = 1..(max_maturity + 1)
    /\ P[max_maturity + 1] # P[max_maturity]
    /\ annuity[max_maturity + 1] = SumTo(P, max_maturity + 1)


(* The CFR back-fill. *)
\* C24: under CFR the pass for the first unquoted maturity of a gap
\* (T_prev, T_next) finds no entry above T_prev and leaves a discount factor
\* and an annuity entry at every maturity T_prev + 1 .. T_next, before the
\* loop goes on to the next maturity.
C24_GapFilledInOnePass ==
    [][(mode = "bootstrap" /\ pc = "loop" /\ IsCFR) =>
          \A g \in Gaps :
              T = g[1] + 1 =>
                  /\ DOMAIN bootstrapped_discount_factors = 1..g[1]
                  /\ DOMAIN bootstrapped_discount_factors' = 1..g[2]
                  /\ DOMAIN annuity' = 1..g[2]
                  /\ pc' = "loop" => T' = g[1] + 2]_vars

\* A CFR run that has just made the pass for the first of at least three
\* unquoted maturities of a gap.
C24_Witness ==
    /\ mode = "bootstrap" /\ pc = "loop" /\ IsCFR
    /\ \E g \in Gaps :
          /\ T = g[1] + 2 /\ T + 1 < g[2]
          /\ DOMAIN bootstrapped_discount_factors = 1..g[2]
          /\ DOMAIN annuity = 1..g[2]


(* The coupon table. *)
\* The reference rate of period k as a decimal rate, and the clamp as the
\* claim writes it.
KnownPeriods == {k \in DOMAIN schedule : schedule[k].fixing # <<>>}
DecimalRate(k) == (schedule[k].fixing[1] * RateScale) \div (100 * CsvScale)
Clamped(rate) == Min({Max({rate, floor}), cap})
Ended == mode = "coupon" /\ pc \in {"printed", "failed"}

\* C25 (as claimed): for every coupon period with a known reference rate
\* the script computes a coupon amount, notional * min(max(rate, floor), cap)
\* * yf, which lies between notional * floor * yf and notional * cap * yf.
C25_CouponFromClampedRate ==
    Ended =>
        \A k \in KnownPeriods :
            /\ k \in DOMAIN coupon_data
            /\ "coupon_amount" \in DOMAIN coupon_data[k]
            /\ LET yf == yearFraction(schedule[k].days)
               IN  /\ coupon_data[k].coupon_amount =
                          <<(notional * Clamped(DecimalRate(k)) * yf) \div RateScale>>
                   /\ (notional * floor * yf) \div RateScale
                          <= coupon_data[k].coupon_amount[1]
                   /\ coupon_data[k].coupon_amount[1]
                          <= (notional * cap * yf) \div RateScale

\* The part of C25 that holds: the table q2_alt.py prints has the clamped
\* amount for every period with a known rate, and no amount for the others.
C25_ClampedInAlt ==
    (Ended /\ script = "q2_alt") =>
        /\ pc = "printed" /\ DOMAIN coupon_data = DOMAIN schedule
        /\ \A k \in DOMAIN schedule \ KnownPeriods :
              coupon_data[k].coupon_amount = <<>>
        /\ \A k \in KnownPeriods :
              LET yf == yearFraction(schedule[k].days)
              IN  /\ coupon_data[k].coupon_amount =
                         <<(notional * Clamped(DecimalRate(k)) * yf) \div RateScale>>
                  /\ (notional * floor * yf) \div RateScale
                         <= coupon_data[k].coupon_amount[1]
                  /\ coupon_data[k].coupon_amount[1]
                         <= (notional * cap * yf) \div RateScale


\* The value the CFR back-fill stores at the upper end of the gap g:
\* P(T_prev) * x^delta, as the curve below the gap gives it.
BackFilledAtEnd(g) ==
    LET x == CfrSolution(P[g[1]], annuity[g[1]], SwapRate(g[2]), g[2] - g[1])
    IN  (P[g[1]] * Pow(x, g[2] - g[1])) \div Scale

\* C26: under CFR the pass for a quoted maturity T_next that closes a gap
\* finds the back-filled P(T_prev) * x^delta there and replaces it by
\* (1 - S(T_next) * (P(1) + ... + P(T_next - 1))) / (1 + S(T_next)), computed
\* from the back-filled intermediates; annuity(T_next) becomes
\* annuity(T_next - 1) plus that value.
C26_BackFilledQuoteReplaced ==
    [][(mode = "bootstrap" /\ pc = "loop" /\ IsCFR) =>
          \A g \in Gaps :
              T = g[2] =>
                  /\ bootstrapped_discount_factors[T] = BackFilledAtEnd(g)
                  /\ bootstrapped_discount_factors'[T] =
                         (RateScale * Scale - SwapRate(T) * SumTo(P, T - 1))
                             \div (RateScale + SwapRate(T))
                  /\ annuity'[T] =
                         annuity[T - 1] + bootstrapped_discount_factors'[T]]_vars

\* A finished CFR run in which the discount factor at the upper end of a gap
\* is not the one the back-fill had stored there.
C26_Witness ==
    /\ Finished /\ IsCFR
    /\ \E g \in Gaps :
          /\ g[2] <= max_maturity
          /\ P[g[2]] # BackFilledAtEnd(g)
          /\ annuity[g[2]] = annuity[g[2] - 1] + P[g[2]]


\* C27: under CFR the pass for a later unquoted maturity of a gap solves
\* again with the same P(T_prev), annuity(T_prev), S(T_next) and delta and
\* rewrites the entries T_prev + 1 .. T_next with the values they hold:
\* bootstrapped_discount_factors and annuity are unchanged by it.
C27_GapFillIdempotent ==
    [][(mode = "bootstrap" /\ pc = "loop" /\ IsCFR) =>
          \A g \in Gaps :
              (g[1] + 1 < T /\ T < g[2]) =>
                  /\ pc' # "failed"
                  /\ LET sol == solve_cfr(P[g[1]], annuity[g[1]],
                                           irs_rates[g[2]], g[2] - g[1])
                     IN  \A k \in 1..(g[2] - g[1]) :
                             bootstrapped_discount_factors'[g[1] + k] = sol.xs[k]
                  /\ bootstrapped_discount_factors' = bootstrapped_discount_factors
                  /\ annuity' = annuity]_vars

\* A CFR run that has made the pass for the second unquoted maturity of a
\* gap whose discount factors differ from one maturity to the next.
C27_Witness ==
    /\ mode = "bootstrap" /\ pc = "loop" /\ IsCFR
    /\ \E g \in Gaps :
          /\ g[1] + 3 = T /\ T <= g[2]
          /\ P[T - 1] # P[T - 2] /\ P[T - 2] # P[g[1]]


(* The solver's result. *)
\* C28: solve_constant_forward returns a value inside the bracket it was
\* called with, for every f and whether or not the bracket holds a root;
\* so the x of solve_cfr lies in [0.8, 1.0] and F = 1 / x - 1 in [0, 0.25].
C28_SolutionInBracket ==
    /\ mode = "solver" =>
          /\ bracket[1] <= x_low /\ x_low <= x_high /\ x_high <= bracket[2]
          /\ pc = "returned" =>
                bracket[1] <= x_solution[1] /\ x_solution[1] <= bracket[2]
    /\ (mode = "bootstrap" /\ pc = "loop" /\ IsCFR) =>
          \A g \in Gaps :
              (g[1] < T /\ T < g[2]) =>
                  LET x == CfrSolution(P[g[1]], annuity[g[1]], irs_rates[g[2]],
                                       g[2] - g[1])
                      F == solve_cfr(P[g[1]], annuity[g[1]], irs_rates[g[2]],
                                     g[2] - g[1]).F
                  IN  /\ CfrLow <= x /\ x <= CfrHigh
                      /\ 0 <= F /\ F <= RateScale \div 4

\* A call on a bracket without a sign change that used every pass and
\* returned a point of the bracket that is not a root.
C28_Witness ==
    /\ Returned /\ SameSignEnds
    /\ bracket[1] < bracket[2] /\ iter = max_iter
    /\ bracket[1] <= x_solution[1] /\ x_solution[1] <= bracket[2]
    /\ f[x_solution[1]] # 0


(* Before the first swap quote. *)
\* C29: every unquoted maturity T >= 2 with no quoted swap maturity below it
\* holds P(T) = P(T - 1), under LSR, CFR and any other method: all of them
\* equal the deposit anchor P(1).
C29_FlatBeforeFirstQuote ==
    Started =>
        \A t \in Settled :
            (t >= 2 /\ \A u \in QuotedT : u > t) =>
                P[t] = P[t - 1] /\ P[t] = P[1]

\* A finished CFR run whose first swap quote lies at least three maturities
\* above the anchor and moves the curve.
C29_Witness ==
    /\ Finished /\ IsCFR /\ QuotedT # {}
    /\ 3 < Min(QuotedT) /\ Min(QuotedT) <= max_maturity
    /\ P[3] = P[1] /\ P[Min(QuotedT)] # P[1]


(* The method string. *)
\* An unquoted maturity of the grid, from 2 on, with a quoted swap maturity
\* below it and one above it.
InteriorGap ==
    \E t \in 2..max_maturity :
        /\ t \notin QuotedT
        /\ \E u \in QuotedT : u < t
        /\ \E u \in QuotedT : u > t
OtherMethod == mode = "bootstrap" /\ ~IsLSR /\ ~IsCFR

\* C30: with a method that is neither "LSR" nor "CFR" in any letter case,
\* a bootstrap that has its anchor raises the invalid-method error if and
\* only if there is an interior gap, at the first maturity of the first one;
\* without an interior gap it completes, the method never being checked.
C30_MethodCheckedOnlyInGap ==
    (OtherMethod /\ pc \in {"done", "derived", "failed"}) =>
        /\ error = ErrMethod => InteriorGap /\ T = FirstGapT
        /\ Has1YDeposit =>
              /\ pc = "failed" <=> InteriorGap
              /\ pc = "failed" => error = ErrMethod
              /\ pc # "failed" =>
                    P = Bootstrap(deposit_discount_factors, irs_rates, "LSR").P

\* A finished run of method "XYZ" with unquoted maturities below and above
\* its two swap quotes.
C30_Witness ==
    /\ OtherMethod /\ Finished
    /\ Cardinality(QuotedT) = 2
    /\ 2 < Min(QuotedT) /\ Max(QuotedT) < max_maturity
    /\ P[max_maturity] # P[1]

=============================================================================
